---- MODULE Spec2Model ----
(***************************************************************************)
(* Room-scoped synchronisation and persistence core of the collaborative   *)
(* drawing server (backend server.js) : the socket.io event handlers, the  *)
(* JSON file store and the MongoDB store.                                  *)
(***************************************************************************)
EXTENDS Integers, Sequences, FiniteSets, Bags, TLC

\* ------------------------------------------------------------------ bounds
\* External inputs handled in one behaviour (connections, events, disconnects)
\* with the database backend, whose handlers interleave at their awaits.
MaxEvents == 3
\* The same with the file backend, whose handlers run to completion.
MaxFileEvents == 5
\* Largest value of the millisecond clock (Date.now()).
MaxTime == 1

\* ------------------------------------------------------------- input sets
\* Socket ids of the connections that may be opened.
Conns == {"c1", "c2", "c3"}

\* Sockets connect in this order (their ids are interchangeable).
Before(b, c) == (b = "c1" /\ c # "c1") \/ (b = "c2" /\ c = "c3")

\* A client Point {x, y, type, color, width, strokeId}; x stands for the
\* coordinates and style fields, which the server only copies.
PointTypes == {"start", "draw"}
StrokeIds == {"s1", "s2"}
Xs == {0}
Points == [type : PointTypes, strokeId : StrokeIds, x : Xs]

\* JSON values that reach the handlers.
JArray(items) == [tag |-> "array", items |-> items]
JNull == [tag |-> "null"]
NoPayload == [tag |-> "none"]
Undefined == [tag |-> "undefined"]
JString(chars) == [tag |-> "string", chars |-> chars]

\* ------------------------------------------------------- input validation
Lower == {"a","b","c","d","e","f","g","h","i","j","k","l","m",
          "n","o","p","q","r","s","t","u","v","w","x","y","z"}
Upper == {"A","B","C","D","E","F","G","H","I","J","K","L","M",
          "N","O","P","Q","R","S","T","U","V","W","X","Y","Z"}
Digits == {"0","1","2","3","4","5","6","7","8","9"}
\* the character class [a-zA-Z0-9_-]
RoomChars == Lower \cup Upper \cup Digits \cup {"_", "-"}
Whitespace == {" "}
\* the quantifier {1,64}
MaxRoomLen == 64

\* Strings are sequences of one-character strings.
lobby == <<"l", "o", "b", "b", "y">>

RECURSIVE trimStart(_)
trimStart(s) ==
  IF s # <<>> /\ Head(s) \in Whitespace THEN trimStart(Tail(s)) ELSE s

RECURSIVE trimEnd(_)
trimEnd(s) ==
  IF s # <<>> /\ s[Len(s)] \in Whitespace
  THEN trimEnd(SubSeq(s, 1, Len(s) - 1)) ELSE s

\* String.prototype.trim
trim(s) == trimEnd(trimStart(s))

\* String(input || '')
StringOrEmpty(input) == IF input.tag = "string" THEN input.chars ELSE <<>>

\* The pattern without its length limit.
RoomPatternNoLimit(v) ==
  /\ Len(v) >= 1
  /\ \A i \in 1..Len(v) : v[i] \in RoomChars

\* /^[a-zA-Z0-9_-]{1,64}$/.test(v)
RoomPattern(v) ==
  /\ Len(v) >= 1
  /\ Len(v) <= MaxRoomLen
  /\ \A i \in 1..Len(v) : v[i] \in RoomChars

\* The room parameter trimmed and not validated.
sanitizeRoomUnchecked(input) == trim(StringOrEmpty(input))

sanitizeRoom(input) ==
  LET v == trim(StringOrEmpty(input))
  IN IF v = <<>> THEN lobby
     ELSE IF ~RoomPattern(v) THEN lobby
     ELSE v

\* Raw room parameters of the handshake query; Undefined is a missing one.
RawRooms == {Undefined, JString(<<"a">>), JString(<<" ", "a">>),
             JString(<<".", ".", "/", "e">>)}

\* const { room: rawRoom = 'lobby' } = socket.handshake.query
QueryRoom(raw) == IF raw.tag = "undefined" THEN JString(lobby) ELSE raw

Rooms == {sanitizeRoom(QueryRoom(raw)) : raw \in RawRooms}

\* ------------------------------------------------------------------ state
VARIABLES
  useMongo,   \* backend flag, set once by setupMongo
  files,      \* data directory: file name -> content
  strokes,    \* Stroke collection, documents in insertion order
  now,        \* millisecond clock, as last read by Date.now()
  status,     \* socket id -> "new" | "open" | "closed"
  roomOf,     \* socket id -> the room its handlers close over
  members,    \* adapter rooms: room -> sockets joined
  tasks,      \* bag of handler invocations suspended at an await
  nEvents,    \* external inputs handled so far
  emitted,    \* messages handed to the transport by the latest step
  last,       \* the latest step: handler, socket, room, argument, result
  appended,   \* per room: points appended since the log was last empty
  appendOnly, \* per room: only sequential appends since then
  nHistory,   \* socket id -> emit('history') calls made on it
  snapFiles,  \* snapshots directory: file name -> content
  snapshots,  \* Snapshot collection, documents in insertion order
  saved,      \* the saveSnapshot calls made so far, oldest first
  resp,       \* the latest store call or request and what it returned
  nOps,       \* store calls and requests made so far
  canvas,     \* socket id -> the points its Canvas has painted, in order
  nSent,      \* socket id -> points its Canvas has drawn itself
  isDrawing,  \* socket id -> the pointer of its Canvas is down
  strokeIdRef,\* socket id -> the id of the stroke its Canvas draws
  up,         \* socket id -> events sent and not yet received by the server
  down,       \* socket id -> messages sent to it and not yet received
  received    \* the draw, clear and undo events in the order the server got them

vars == <<useMongo, files, strokes, now, status, roomOf, members,
          tasks, nEvents, emitted, last, appended, appendOnly, nHistory,
          snapFiles, snapshots, saved, resp, nOps,
          canvas, nSent, isDrawing, strokeIdRef, up, down, received>>

\* The state of the snapshot stores and of the store-level calls.
storeVars == <<snapFiles, snapshots, saved, resp, nOps>>

\* The state of the sockets and of their handlers.
socketVars == <<status, roomOf, members, tasks, nEvents, emitted, last,
                appended, appendOnly, nHistory,
                canvas, nSent, isDrawing, strokeIdRef, up, down, received>>

\* The state of the Canvas clients and of the messages in flight.
clientVars == <<canvas, nSent, isDrawing, strokeIdRef, up, down, received>>

\* --------------------------------------------------------- file persistence
NoFile == [exists |-> FALSE]
FileOf(text) == [exists |-> TRUE, text |-> text]

jsonSuffix == <<".", "j", "s", "o", "n">>

\* Every room written to one file, the room name ignored.
fileForLobby(room) == lobby \o jsonSuffix

fileForRoom(room) == room \o jsonSuffix

FileNames == {fileForRoom(r) : r \in Rooms}

\* JSON.stringify of an array of points: one token list per element.
JSONstringify(arr) ==
  [i \in 1..Len(arr) |->
     <<"type", arr[i].type, "strokeId", arr[i].strokeId, "x", arr[i].x>>]

\* JSON.parse of such a text.
JSONparse(text) ==
  [i \in 1..Len(text) |->
     [type |-> text[i][2], strokeId |-> text[i][4], x |-> text[i][6]]]

loadStrokesFrom(fs, room) ==
  LET f == fileForRoom(room)
  IN IF ~fs[f].exists THEN <<>> ELSE JSONparse(fs[f].text)

loadStrokes(room) == loadStrokesFrom(files, room)

saveStrokes(fs, room, arr) ==
  [fs EXCEPT ![fileForRoom(room)] = FileOf(JSONstringify(arr))]

appendStroke(fs, room, stroke) ==
  saveStrokes(fs, room, Append(loadStrokesFrom(fs, room), stroke))

\* Index of the last point of type start, 0 when there is none.
LastStart(arr) ==
  LET S == {i \in 1..Len(arr) : arr[i].type = "start"}
  IN IF S = {} THEN 0 ELSE CHOOSE i \in S : \A j \in S : j <= i

\* slice(0, i + 1) for slice(0, i): the start point of the stroke is kept.
removeLastStrokeKeepStart(arr) ==
  IF LastStart(arr) # 0 THEN SubSeq(arr, 1, LastStart(arr)) ELSE <<>>

\* The array removeLastStroke saves and returns.
removeLastStroke(arr) ==
  IF LastStart(arr) # 0 THEN SubSeq(arr, 1, LastStart(arr) - 1) ELSE <<>>

\* -------------------------------------------------------- mongo persistence
\* pointSchema {x, y, type, color, width, order}: the strict schema keeps
\* no strokeId on a stored point; mongoAppendPoint adds order.
castPoint(pt, order) == [type |-> pt.type, x |-> pt.x, order |-> order]

snapshotId == "snapshot"
legacyId == "legacy"

\* strokeId || 'legacy'
strokeKey(strokeId) == IF strokeId = "" THEN legacyId ELSE strokeId

\* Positions of the documents matching { room, strokeId }.
Matching(coll, room, strokeId) ==
  {i \in 1..Len(coll) : coll[i].room = room /\ coll[i].strokeId = strokeId}

\* StrokeModel.updateOne({room, strokeId}, {$push, $setOnInsert}, {upsert})
\* as issued at time t by mongoAppendPoint.
mongoAppendPoint(coll, id, room, strokeId, pt, t) ==
  LET M == Matching(coll, room, strokeId)
  IN IF M = {}
     THEN Append(coll, [id |-> id, room |-> room, strokeId |-> strokeId,
                        points |-> <<castPoint(pt, t)>>, createdAt |-> t])
     ELSE LET i == CHOOSE k \in M : \A j \in M : k <= j
          IN [coll EXCEPT ![i].points = Append(@, castPoint(pt, t))]

\* StrokeModel.deleteMany({ room })
mongoClear(coll, room) == SelectSeq(coll, LAMBDA d : d.room # room)

\* StrokeModel.deleteOne({ _id })
deleteOne(coll, id) == SelectSeq(coll, LAMBDA d : d.id # id)

RoomDocs(coll, room) == {coll[i] : i \in {k \in 1..Len(coll) : coll[k].room = room}}

\* The orders in which find({room}).sort({createdAt: 1}) may return the
\* documents: ascending createdAt, equal timestamps in any order.
SortedAsc(D) ==
  {s \in [1..Cardinality(D) -> D] :
     /\ \A i, j \in 1..Cardinality(D) : i # j => s[i] # s[j]
     /\ \A i, j \in 1..Cardinality(D) : i < j => s[i].createdAt <= s[j].createdAt}

RECURSIVE Flatten(_)
Flatten(docs) ==
  IF docs = <<>> THEN <<>> ELSE Head(docs).points \o Flatten(Tail(docs))

\* The arrays mongoLoadAllPoints may return.
mongoLoadAllPoints(coll, room) ==
  {Flatten(s) : s \in SortedAsc(RoomDocs(coll, room))}

\* The documents findOne({room}).sort({createdAt: -1}) may return.
findLast(coll, room) ==
  {d \in RoomDocs(coll, room) :
     \A e \in RoomDocs(coll, room) : e.createdAt <= d.createdAt}

\* loadAll of the backend in use: the arrays it may return.
LoadAllOf(fs, coll, room) ==
  IF useMongo THEN mongoLoadAllPoints(coll, room) ELSE {loadStrokesFrom(fs, room)}

LoadAll(room) == LoadAllOf(files, strokes, room)

\* ---------------------------------------------------------------- transport
Msgs(recipients, event, payload) ==
  {[to |-> r, event |-> event, payload |-> payload] : r \in recipients}

\* io.emit : every joined socket, the room ignored.
ioToEveryRoom(mem, room) == UNION {mem[r] : r \in DOMAIN mem}

\* io.to(room).emit : every socket joined to the room
ioTo(mem, room) == mem[room]

\* socket.broadcast.emit : every joined socket but the sender, the room ignored.
socketToEveryRoom(mem, c, room) == UNION {mem[r] : r \in DOMAIN mem} \ {c}

\* io.to(room).emit for socket.to(room).emit : the sender included.
socketToWithSender(mem, c, room) == mem[room]

\* socket.to(room).emit : the room without the sending socket
socketTo(mem, c, room) == mem[room] \ {c}

\* socket.emit : the socket itself, nothing once it has disconnected
socketEmit(st, c) == IF st[c] = "open" THEN {c} ELSE {}

\* ------------------------------------------------------------------- inputs
\* Payloads of applySnapshot: arrays of points and values that are no array.
Pt(type, strokeId) == [type |-> type, strokeId |-> strokeId, x |-> 0]

SnapshotPayloads ==
  {JArray(<<>>),
   JArray(<<Pt("start", "s1"), Pt("start", "s2")>>),
   JNull}

\* The guard left out: every payload passes.
isArrayAlways(v) == TRUE

\* Array.isArray
isArray(v) == v.tag = "array"

\* The elements a handler iterates over or serialises.
arrayItems(v) == IF v.tag = "array" THEN v.items ELSE <<>>

NoRoom == <<>>

Step(op, c, room, arg, ret, pre) ==
  [op |-> op, conn |-> c, room |-> room, arg |-> arg, ret |-> ret, pre |-> pre]

\* The record of a step that hands nothing to the transport.
Quiet == Step("db", "", NoRoom, NoPayload, NoPayload, {})

Task(kind, c, room, pc, arg, t) ==
  [kind |-> kind, conn |-> c, room |-> room, pc |-> pc,
   arg |-> arg, t |-> t, res |-> <<>>, i |-> 1, target |-> 0]

\* A fresh ObjectId: one no stored document has and no handler holds.
NewObjectId ==
  LET used == {strokes[i].id : i \in 1..Len(strokes)} \cup {k.target : k \in BagToSet(tasks)}
  IN CHOOSE n \in 1..(Cardinality(used) + 1) : n \notin used

\* Date.now() / new Date(): the clock is at or after its last reading.  Only
\* the order of the readings is ever compared, so a reading is the last one
\* or the next value.
Clock == {t \in now..(now + 1) : t <= MaxTime}

\* External inputs the behaviour may still handle.
MoreEvents == nEvents < (IF useMongo THEN MaxEvents ELSE MaxFileEvents)

\* A handler invocation of the room that has not finished its store calls.
Busy(room) == \E k \in BagToSet(tasks) : k.room = room /\ k.kind # "join"

\* The suspended invocations after one starts, ends, or moves on.
Started(k) == tasks (+) SetToBag({k})
Ended(k) == tasks (-) SetToBag({k})
Resumed(k, k2) == (tasks (-) SetToBag({k})) (+) SetToBag({k2})

\* No Canvas has painted or sent anything yet.
NoClients ==
  /\ canvas = [c \in Conns |-> <<>>]
  /\ nSent = [c \in Conns |-> 0]
  /\ isDrawing = [c \in Conns |-> FALSE]
  /\ strokeIdRef = [c \in Conns |-> ""]
  /\ up = [c \in Conns |-> <<>>]
  /\ down = [c \in Conns |-> <<>>]
  /\ received = <<>>

Init ==
  /\ useMongo \in BOOLEAN
  /\ files = [f \in FileNames |-> NoFile]
  /\ strokes = <<>>
  /\ now = 0
  /\ status = [c \in Conns |-> "new"]
  /\ roomOf = [c \in Conns |-> NoRoom]
  /\ members = [r \in Rooms |-> {}]
  /\ tasks = EmptyBag
  /\ nEvents = 0
  /\ emitted = {}
  /\ last = Step("init", "", NoRoom, NoPayload, NoPayload, {})
  /\ appended = [r \in Rooms |-> <<>>]
  /\ appendOnly = [r \in Rooms |-> TRUE]
  /\ nHistory = [c \in Conns |-> 0]
  /\ snapFiles = <<>>
  /\ snapshots = <<>>
  /\ saved = <<>>
  /\ resp = NoPayload
  /\ nOps = 0
  /\ NoClients

\* ----------------------------------------------------------------- handlers
\* io.on('connection'): join the sanitized room, send it the history.
Connection(c, raw) ==
  LET room == sanitizeRoom(QueryRoom(raw))
      history == loadStrokes(room)
  IN /\ MoreEvents
     /\ status[c] = "new"
     /\ \A b \in Conns : Before(b, c) => status[b] # "new"
     /\ nEvents' = nEvents + 1
     /\ status' = [status EXCEPT ![c] = "open"]
     /\ roomOf' = [roomOf EXCEPT ![c] = room]
     /\ members' = [members EXCEPT ![room] = @ \cup {c}]
     /\ IF useMongo
        THEN /\ tasks' = Started(Task("join", c, room, "find", NoPayload, 0))
             /\ emitted' = {}
             /\ nHistory' = nHistory
             /\ last' = Step("connection", c, room, raw, NoPayload, {})
        ELSE /\ tasks' = tasks
             /\ emitted' = Msgs(socketEmit(status', c), "history", JArray(history))
             /\ nHistory' = [nHistory EXCEPT ![c] = @ + 1]
             /\ last' = Step("connection", c, room, raw, JArray(history), {})
     /\ UNCHANGED <<useMongo, files, strokes, now, appended, appendOnly>>
     /\ UNCHANGED storeVars

\* socket.on('draw'): broadcast to the others, then persist.
Draw(c, data) ==
  LET room == roomOf[c]
  IN /\ MoreEvents
     /\ status[c] = "open"
     /\ nEvents' = nEvents + 1
     /\ emitted' = Msgs(socketTo(members, c, room), "draw", data)
     /\ last' = Step("draw", c, room, data, NoPayload, {})
     /\ IF useMongo
        THEN /\ \E t \in Clock :
                  /\ now' = t
                  /\ tasks' = Started(Task("draw", c, room, "updateOne", data, t))
             /\ appendOnly' = [appendOnly EXCEPT ![room] = @ /\ ~Busy(room)]
             /\ appended' = IF appendOnly'[room] THEN appended
                            ELSE [appended EXCEPT ![room] = <<>>]
             /\ UNCHANGED files
        ELSE /\ files' = appendStroke(files, room, data)
             /\ appended' = IF appendOnly[room]
                            THEN [appended EXCEPT ![room] = Append(@, data)]
                            ELSE appended
             /\ UNCHANGED <<tasks, appendOnly, now>>
     /\ UNCHANGED <<useMongo, strokes, status, roomOf, members, nHistory>>
     /\ UNCHANGED storeVars

\* socket.on('clear'): tell the others, then empty the log.
Clear(c) ==
  LET room == roomOf[c]
  IN /\ MoreEvents
     /\ status[c] = "open"
     /\ nEvents' = nEvents + 1
     /\ emitted' = Msgs(socketTo(members, c, room), "clear", NoPayload)
     /\ last' = Step("clear", c, room, NoPayload, NoPayload, LoadAll(room))
     /\ appendOnly' = [appendOnly EXCEPT ![room] = FALSE]
     /\ appended' = [appended EXCEPT ![room] = <<>>]
     /\ IF useMongo
        THEN /\ tasks' = Started(Task("clear", c, room, "deleteMany", NoPayload, 0))
             /\ UNCHANGED files
        ELSE /\ files' = saveStrokes(files, room, <<>>)
             /\ UNCHANGED tasks
     /\ UNCHANGED <<useMongo, strokes, now, status, roomOf, members, nHistory>>
     /\ UNCHANGED storeVars

\* socket.on('undo'): remove the last stroke, reset the whole room.
Undo(c) ==
  LET room == roomOf[c]
      history == removeLastStroke(loadStrokes(room))
  IN /\ MoreEvents
     /\ status[c] = "open"
     /\ nEvents' = nEvents + 1
     /\ appendOnly' = [appendOnly EXCEPT ![room] = FALSE]
     /\ appended' = [appended EXCEPT ![room] = <<>>]
     /\ IF useMongo
        THEN /\ tasks' = Started(Task("undo", c, room, "findOne", NoPayload, 0))
             /\ emitted' = {}
             /\ last' = Step("undo", c, room, NoPayload, NoPayload, {})
             /\ UNCHANGED files
        ELSE /\ files' = saveStrokes(files, room, history)
             /\ emitted' = Msgs(ioTo(members, room), "resetWithHistory", JArray(history))
             /\ last' = Step("undo", c, room, NoPayload, JArray(history), LoadAll(room))
             /\ UNCHANGED tasks
     /\ UNCHANGED <<useMongo, strokes, now, status, roomOf, members, nHistory>>
     /\ UNCHANGED storeVars

\* socket.on('applySnapshot'): replace the log, reset the whole room.
ApplySnapshot(c, history) ==
  LET room == roomOf[c]
  IN /\ MoreEvents
     /\ status[c] = "open"
     /\ nEvents' = nEvents + 1
     /\ last' = Step("applySnapshot", c, room, history, NoPayload, {})
     /\ IF ~isArray(history)
        THEN /\ emitted' = {}
             /\ UNCHANGED <<files, tasks, appendOnly, appended>>
        ELSE /\ appendOnly' = [appendOnly EXCEPT ![room] = FALSE]
             /\ appended' = [appended EXCEPT ![room] = <<>>]
             /\ IF useMongo
                THEN /\ tasks' = Started(Task("applySnapshot", c, room, "deleteMany", history, 0))
                     /\ emitted' = {}
                     /\ UNCHANGED files
                ELSE /\ files' = saveStrokes(files, room, arrayItems(history))
                     /\ emitted' = Msgs(ioTo(members, room), "resetWithHistory", history)
                     /\ UNCHANGED tasks
     /\ UNCHANGED <<useMongo, strokes, now, status, roomOf, members, nHistory>>
     /\ UNCHANGED storeVars

\* socket.on('cursor'): relay with the sender's id.
Cursor(c, x) ==
  LET room == roomOf[c]
  IN /\ MoreEvents
     /\ status[c] = "open"
     /\ nEvents' = nEvents + 1
     /\ emitted' = Msgs(socketTo(members, c, room), "cursor", [id |-> c, x |-> x])
     /\ last' = Step("cursor", c, room, [x |-> x], NoPayload, {})
     /\ UNCHANGED <<useMongo, files, strokes, now, status, roomOf, members,
                    tasks, appended, appendOnly, nHistory>>
     /\ UNCHANGED storeVars

\* socket.on('disconnect'): the socket has left its rooms; tell the others.
Disconnect(c) ==
  LET room == roomOf[c]
  IN /\ MoreEvents
     /\ status[c] = "open"
     /\ nEvents' = nEvents + 1
     /\ status' = [status EXCEPT ![c] = "closed"]
     /\ members' = [members EXCEPT ![room] = @ \ {c}]
     /\ emitted' = Msgs(socketTo(members', c, room), "cursor:left", [id |-> c])
     /\ last' = Step("disconnect", c, room, NoPayload, NoPayload, {})
     /\ UNCHANGED <<useMongo, files, strokes, now, roomOf, tasks,
                    appended, appendOnly, nHistory>>
     /\ UNCHANGED storeVars

\* ------------------------------------------- database calls and resumptions
\* join: the find of mongoLoadAllPoints runs.
JoinFind(k) ==
  /\ k.kind = "join" /\ k.pc = "find"
  /\ \E res \in mongoLoadAllPoints(strokes, k.room) :
       tasks' = Resumed(k, [k EXCEPT !.pc = "emit", !.res = res])
  /\ emitted' = {}
  /\ last' = Quiet
  /\ UNCHANGED <<useMongo, files, strokes, now, status, roomOf, members,
                 nEvents, appended, appendOnly, nHistory>>
  /\ UNCHANGED storeVars

\* join: the handler resumes and emits the history to its socket.
JoinEmit(k) ==
  /\ k.kind = "join" /\ k.pc = "emit"
  /\ tasks' = Ended(k)
  /\ emitted' = Msgs(socketEmit(status, k.conn), "history", JArray(k.res))
  /\ nHistory' = [nHistory EXCEPT ![k.conn] = @ + 1]
  /\ last' = Step("join.emit", k.conn, k.room, NoPayload, JArray(k.res), {})
  /\ UNCHANGED <<useMongo, files, strokes, now, status, roomOf, members,
                 nEvents, appended, appendOnly>>
  /\ UNCHANGED storeVars

\* draw: the updateOne of mongoAppendPoint runs; the handler ends.
DrawUpdate(k) ==
  /\ k.kind = "draw" /\ k.pc = "updateOne"
  /\ strokes' = mongoAppendPoint(strokes, NewObjectId, k.room, strokeKey(k.arg.strokeId), k.arg, k.t)
  /\ tasks' = Ended(k)
  /\ appended' = IF appendOnly[k.room]
                 THEN [appended EXCEPT ![k.room] = Append(@, k.arg)]
                 ELSE appended
  /\ emitted' = {}
  /\ last' = Quiet
  /\ UNCHANGED <<useMongo, files, now, status, roomOf, members, nEvents,
                 appendOnly, nHistory>>
  /\ UNCHANGED storeVars

\* clear: the deleteMany of mongoClear runs; the handler ends.
ClearDelete(k) ==
  /\ k.kind = "clear" /\ k.pc = "deleteMany"
  /\ strokes' = mongoClear(strokes, k.room)
  /\ tasks' = Ended(k)
  /\ emitted' = {}
  /\ last' = Step("clear.deleteMany", k.conn, k.room, NoPayload, NoPayload, LoadAll(k.room))
  /\ UNCHANGED <<useMongo, files, now, status, roomOf, members, nEvents,
                 appended, appendOnly, nHistory>>
  /\ UNCHANGED storeVars

\* undo: the findOne of mongoUndo runs; with a document found the handler
\* goes on to deleteOne, with none it returns [].
UndoFindOne(k) ==
  /\ k.kind = "undo" /\ k.pc = "findOne"
  /\ IF findLast(strokes, k.room) = {}
     THEN tasks' = Resumed(k, [k EXCEPT !.pc = "emit", !.res = <<>>])
     ELSE \E d \in findLast(strokes, k.room) :
            tasks' = Resumed(k, [k EXCEPT !.pc = "deleteOne", !.target = d.id])
  /\ emitted' = {}
  /\ last' = Quiet
  /\ UNCHANGED <<useMongo, files, strokes, now, status, roomOf, members,
                 nEvents, appended, appendOnly, nHistory>>
  /\ UNCHANGED storeVars

\* undo: the deleteOne runs; the handler goes on to mongoLoadAllPoints.
UndoDeleteOne(k) ==
  /\ k.kind = "undo" /\ k.pc = "deleteOne"
  /\ strokes' = deleteOne(strokes, k.target)
  /\ tasks' = Resumed(k, [k EXCEPT !.pc = "find"])
  /\ emitted' = {}
  /\ last' = Quiet
  /\ UNCHANGED <<useMongo, files, now, status, roomOf, members, nEvents,
                 appended, appendOnly, nHistory>>
  /\ UNCHANGED storeVars

\* undo: the find of mongoLoadAllPoints runs.
UndoFind(k) ==
  /\ k.kind = "undo" /\ k.pc = "find"
  /\ \E res \in mongoLoadAllPoints(strokes, k.room) :
       tasks' = Resumed(k, [k EXCEPT !.pc = "emit", !.res = res])
  /\ emitted' = {}
  /\ last' = Quiet
  /\ UNCHANGED <<useMongo, files, strokes, now, status, roomOf, members,
                 nEvents, appended, appendOnly, nHistory>>
  /\ UNCHANGED storeVars

\* undo: the handler resumes and resets the room with the history it got.
UndoEmit(k) ==
  /\ k.kind = "undo" /\ k.pc = "emit"
  /\ tasks' = Ended(k)
  /\ emitted' = Msgs(ioTo(members, k.room), "resetWithHistory", JArray(k.res))
  /\ last' = Step("undo.emit", k.conn, k.room, NoPayload, JArray(k.res), {})
  /\ UNCHANGED <<useMongo, files, strokes, now, status, roomOf, members,
                 nEvents, appended, appendOnly, nHistory>>
  /\ UNCHANGED storeVars

\* applySnapshot: the deleteMany of mongoClear runs.
SnapDeleteMany(k) ==
  /\ k.kind = "applySnapshot" /\ k.pc = "deleteMany"
  /\ strokes' = mongoClear(strokes, k.room)
  /\ tasks' = Resumed(k, [k EXCEPT !.pc = "next"])
  /\ emitted' = {}
  /\ last' = Quiet
  /\ UNCHANGED <<useMongo, files, now, status, roomOf, members, nEvents,
                 appended, appendOnly, nHistory>>
  /\ UNCHANGED storeVars

\* applySnapshot: the handler resumes; it issues the append of the next
\* point, or after the last one resets the room with the array it was given.
SnapNext(k) ==
  /\ k.kind = "applySnapshot" /\ k.pc = "next"
  /\ IF k.i <= Len(arrayItems(k.arg))
     THEN /\ \E t \in Clock :
               /\ now' = t
               /\ tasks' = Resumed(k, [k EXCEPT !.pc = "updateOne", !.t = t])
          /\ emitted' = {}
          /\ last' = Quiet
     ELSE /\ tasks' = Ended(k)
          /\ emitted' = Msgs(ioTo(members, k.room), "resetWithHistory", k.arg)
          /\ last' = Step("applySnapshot.emit", k.conn, k.room, k.arg, NoPayload, {})
          /\ UNCHANGED now
  /\ UNCHANGED <<useMongo, files, strokes, status, roomOf, members,
                 nEvents, appended, appendOnly, nHistory>>
  /\ UNCHANGED storeVars

\* applySnapshot: the updateOne of mongoAppendPoint(room, 'snapshot', pt) runs.
SnapUpdate(k) ==
  /\ k.kind = "applySnapshot" /\ k.pc = "updateOne"
  /\ strokes' = mongoAppendPoint(strokes, NewObjectId, k.room, snapshotId, arrayItems(k.arg)[k.i], k.t)
  /\ tasks' = Resumed(k, [k EXCEPT !.pc = "next", !.i = @ + 1])
  /\ emitted' = {}
  /\ last' = Quiet
  /\ UNCHANGED <<useMongo, files, now, status, roomOf, members, nEvents,
                 appended, appendOnly, nHistory>>
  /\ UNCHANGED storeVars

\* -------------------------------------------------------------------- next
Next ==
  \/ \E c \in Conns, raw \in RawRooms : Connection(c, raw) /\ UNCHANGED clientVars
  \/ \E c \in Conns, data \in Points : Draw(c, data) /\ UNCHANGED clientVars
  \/ \E c \in Conns : Clear(c) /\ UNCHANGED clientVars
  \/ \E c \in Conns : Undo(c) /\ UNCHANGED clientVars
  \/ \E c \in Conns, history \in SnapshotPayloads : ApplySnapshot(c, history) /\ UNCHANGED clientVars
  \/ \E c \in Conns, x \in Xs : Cursor(c, x) /\ UNCHANGED clientVars
  \/ \E c \in Conns : Disconnect(c) /\ UNCHANGED clientVars
  \/ \E k \in BagToSet(tasks) : JoinFind(k) /\ UNCHANGED clientVars
  \/ \E k \in BagToSet(tasks) : JoinEmit(k) /\ UNCHANGED clientVars
  \/ \E k \in BagToSet(tasks) : DrawUpdate(k) /\ UNCHANGED clientVars
  \/ \E k \in BagToSet(tasks) : ClearDelete(k) /\ UNCHANGED clientVars
  \/ \E k \in BagToSet(tasks) : UndoFindOne(k) /\ UNCHANGED clientVars
  \/ \E k \in BagToSet(tasks) : UndoDeleteOne(k) /\ UNCHANGED clientVars
  \/ \E k \in BagToSet(tasks) : UndoFind(k) /\ UNCHANGED clientVars
  \/ \E k \in BagToSet(tasks) : UndoEmit(k) /\ UNCHANGED clientVars
  \/ \E k \in BagToSet(tasks) : SnapDeleteMany(k) /\ UNCHANGED clientVars
  \/ \E k \in BagToSet(tasks) : SnapNext(k) /\ UNCHANGED clientVars
  \/ \E k \in BagToSet(tasks) : SnapUpdate(k) /\ UNCHANGED clientVars

Spec == Init /\ [][Next]_vars

\* ======================================================= snapshot stores
\* the character class [a-zA-Z0-9 _-] of sanitizeName
NameChars == RoomChars \cup {" "}
\* .slice(0, 100)
MaxNameLen == 100

\* new Date().toISOString() at clock value t (milliseconds, t < 10).
toISOString(t) ==
  <<"1","9","7","0","-","0","1","-","0","1","T",
    "0","0",":","0","0",":","0","0",".","0","0">>
    \o <<CHOOSE d \in Digits : d = ToString(t)>> \o <<"Z">>

\* s.replace(/[^...]/g, '_') for the character class keep
replaceOutside(s, keep) ==
  [i \in 1..Len(s) |-> IF s[i] \in keep THEN s[i] ELSE "_"]

\* s.slice(0, n)
slice(s, n) == SubSeq(s, 1, IF Len(s) < n THEN Len(s) ELSE n)

sanitizeName(input, t) ==
  LET v == trim(StringOrEmpty(input))
  IN IF v = <<>> THEN toISOString(t)
     ELSE slice(replaceOutside(v, NameChars), MaxNameLen)

snapshotSep == <<"_", "_">>

\* The file name below snapshotsDir.
snapshotFile(room, name) ==
  room \o snapshotSep \o replaceOutside(name, RoomChars) \o jsonSuffix

\* The snapshots directory after saveSnapshotFile(room, name) at time t.
saveSnapshotFile(sf, fs, room, name, t) ==
  (snapshotFile(room, name) :>
      FileOf([room |-> room, name |-> name,
              data |-> JSONstringify(loadStrokesFrom(fs, room)),
              createdAt |-> t])) @@ sf

startsWith(s, prefix) ==
  Len(s) >= Len(prefix) /\ SubSeq(s, 1, Len(prefix)) = prefix

endsWith(s, suffix) ==
  Len(s) >= Len(suffix) /\ SubSeq(s, Len(s) - Len(suffix) + 1, Len(s)) = suffix

\* The entries listSnapshotsFile returns (readdir order left open).
listSnapshotsFile(sf, room) ==
  {[room |-> sf[f].text.room, name |-> sf[f].text.name,
    createdAt |-> sf[f].text.createdAt] :
     f \in {g \in DOMAIN sf : /\ startsWith(g, room \o snapshotSep)
                              /\ endsWith(g, jsonSuffix)}}

\* loadSnapshotFile: null without the file, else raw.data || []
loadSnapshotFile(sf, room, name) ==
  IF snapshotFile(room, name) \notin DOMAIN sf THEN JNull
  ELSE JArray(JSONparse(sf[snapshotFile(room, name)].text.data))

\* doc._id.toString(): 24 hexadecimal characters.
HexChars == Digits \cup {"a", "b", "c", "d", "e", "f"}
ObjectIdLen == 24
ObjectIdHex(n) ==
  [i \in 1..ObjectIdLen |->
     IF i < ObjectIdLen THEN "0" ELSE CHOOSE d \in Digits : d = ToString(n)]

\* idOrName.match(/^[a-f0-9]{24}$/)
isObjectIdHex(key) ==
  Len(key) = ObjectIdLen /\ \A i \in 1..Len(key) : key[i] \in HexChars

\* The collection after SnapshotModel.create({ room, name, data }) at time t.
mongoSaveSnapshot(sc, data, room, name, t) ==
  Append(sc, [id |-> ObjectIdHex(Len(sc) + 1), room |-> room, name |-> name,
              data |-> data, createdAt |-> t])

\* The entries mongoListSnapshots returns.
mongoListSnapshots(sc, room) ==
  {[id |-> sc[i].id, room |-> sc[i].room, name |-> sc[i].name,
    createdAt |-> sc[i].createdAt] :
     i \in {k \in 1..Len(sc) : sc[k].room = room}}

\* The values mongoLoadSnapshot may return: the document with that id if the
\* key looks like one, else a document findOne({ room, name }) may pick.
mongoLoadSnapshot(sc, room, key) ==
  LET byId == {i \in 1..Len(sc) : isObjectIdHex(key) /\ sc[i].id = key}
      byName == {i \in 1..Len(sc) : sc[i].room = room /\ sc[i].name = key}
  IN IF byId # {} THEN {JArray(sc[i].data) : i \in byId}
     ELSE IF byName # {} THEN {JArray(sc[i].data) : i \in byName}
     ELSE {JNull}

\* ================================================== store calls, in sequence
\* Store calls and snapshot requests made one after the other, each run to its
\* end, against the file store and the database store side by side.
MaxStoreOps == 4

\* Room and name parameters of the snapshot requests.
StoreRawRooms == {JString(<<"a">>), JString(<<"a", "_">>)}
StoreRooms == {sanitizeRoom(QueryRoom(raw)) : raw \in StoreRawRooms}
RawNames == {JString(<<"b">>), JString(<<"_", "b">>)}

\* The keys a client may ask for: a name, or an id a save returned.
RawKeys == RawNames \cup {JString(snapshots[i].id) : i \in 1..Len(snapshots)}

Resp(op, room, key, file, mongo, onlyDraws, undone) ==
  [op |-> op, room |-> room, key |-> key, file |-> file, mongo |-> mongo,
   onlyDraws |-> onlyDraws, undone |-> undone]

\* A fresh ObjectId for a document of the collection.
FreshId(coll) ==
  CHOOSE n \in 1..(Len(coll) + 1) : n \notin {coll[i].id : i \in 1..Len(coll)}

\* for (const pt of history) await mongoAppendPoint(room, 'snapshot', pt),
\* all within the clock value t.
RECURSIVE appendAll(_, _, _, _)
appendAll(coll, room, items, t) ==
  IF items = <<>> THEN coll
  ELSE appendAll(mongoAppendPoint(coll, FreshId(coll), room, snapshotId,
                                  Head(items), t),
                 room, Tail(items), t)

StoreInit ==
  /\ useMongo = FALSE
  /\ files = [f \in {fileForRoom(r) : r \in StoreRooms} |-> NoFile]
  /\ strokes = <<>>
  /\ now = 0
  /\ status = [c \in Conns |-> "new"]
  /\ roomOf = [c \in Conns |-> NoRoom]
  /\ members = [r \in Rooms |-> {}]
  /\ tasks = EmptyBag
  /\ nEvents = 0
  /\ emitted = {}
  /\ last = Step("init", "", NoRoom, NoPayload, NoPayload, {})
  /\ appended = [r \in Rooms |-> <<>>]
  /\ appendOnly = [r \in Rooms |-> TRUE]
  /\ nHistory = [c \in Conns |-> 0]
  /\ snapFiles = <<>>
  /\ snapshots = <<>>
  /\ saved = <<>>
  /\ resp = Resp("init", NoRoom, <<>>, NoPayload, NoPayload, TRUE, FALSE)
  /\ nOps = 0
  /\ NoClients

\* append(room, point): appendStroke and mongoAppendPoint.
StoreAppend(room, pt) ==
  /\ nOps < MaxStoreOps
  /\ nOps' = nOps + 1
  /\ \E t \in Clock :
       /\ now' = t
       /\ strokes' = mongoAppendPoint(strokes, NewObjectId, room,
                                      strokeKey(pt.strokeId), pt, t)
  /\ files' = appendStroke(files, room, pt)
  /\ resp' = Resp("append", room, <<>>, NoPayload, NoPayload,
                  resp.onlyDraws, resp.undone)
  /\ UNCHANGED <<useMongo, snapFiles, snapshots, saved>>
  /\ UNCHANGED socketVars

\* clear(room): saveStrokes(room, []) and mongoClear.
StoreClear(room) ==
  /\ nOps < MaxStoreOps
  /\ nOps' = nOps + 1
  /\ files' = saveStrokes(files, room, <<>>)
  /\ strokes' = mongoClear(strokes, room)
  /\ resp' = Resp("clear", room, <<>>, NoPayload, NoPayload, FALSE, resp.undone)
  /\ UNCHANGED <<useMongo, now, snapFiles, snapshots, saved>>
  /\ UNCHANGED socketVars

\* undo(room): removeLastStroke and mongoUndo, with what each returns.
StoreUndo(room) ==
  LET history == removeLastStroke(loadStrokesFrom(files, room))
  IN /\ nOps < MaxStoreOps
     /\ nOps' = nOps + 1
     /\ files' = saveStrokes(files, room, history)
     /\ IF findLast(strokes, room) = {}
        THEN /\ strokes' = strokes
             /\ resp' = Resp("undo", room, <<>>, JArray(history), JArray(<<>>),
                             FALSE, TRUE)
        ELSE \E d \in findLast(strokes, room) :
               /\ strokes' = deleteOne(strokes, d.id)
               /\ \E res \in mongoLoadAllPoints(strokes', room) :
                    resp' = Resp("undo", room, <<>>, JArray(history), JArray(res),
                                 FALSE, TRUE)
     /\ UNCHANGED <<useMongo, now, snapFiles, snapshots, saved>>
     /\ UNCHANGED socketVars

\* replaceAll(room, points): the two branches of applySnapshot.
StoreReplace(room, history) ==
  /\ nOps < MaxStoreOps
  /\ nOps' = nOps + 1
  /\ isArray(history)
  /\ files' = saveStrokes(files, room, arrayItems(history))
  /\ \E t \in Clock :
       /\ now' = t
       /\ strokes' = appendAll(mongoClear(strokes, room), room,
                               arrayItems(history), t)
  /\ resp' = Resp("replace", room, <<>>, NoPayload, NoPayload, FALSE, resp.undone)
  /\ UNCHANGED <<useMongo, snapFiles, snapshots, saved>>
  /\ UNCHANGED socketVars

\* POST /api/snapshots: saveSnapshotFile and mongoSaveSnapshot.
SaveSnapshot(rawRoom, rawName) ==
  LET room == sanitizeRoom(QueryRoom(rawRoom))
  IN /\ nOps < MaxStoreOps
     /\ nOps' = nOps + 1
     /\ \E t \in Clock, data \in mongoLoadAllPoints(strokes, room) :
          LET name == sanitizeName(rawName, t)
          IN /\ now' = t
             /\ snapFiles' = saveSnapshotFile(snapFiles, files, room, name, t)
             /\ snapshots' = mongoSaveSnapshot(snapshots, data, room, name, t)
             /\ saved' = Append(saved,
                  [room |-> room, name |-> name, t |-> t,
                   file |-> snapshotFile(room, name),
                   id |-> ObjectIdHex(Len(snapshots) + 1),
                   fileLog |-> loadStrokesFrom(files, room),
                   mongoLog |-> data])
             /\ resp' = Resp("save", room, name, NoPayload, NoPayload,
                             resp.onlyDraws, resp.undone)
     /\ UNCHANGED <<useMongo, files, strokes>>
     /\ UNCHANGED socketVars

\* GET /api/snapshots/:idOrName: loadSnapshotFile and mongoLoadSnapshot.
LoadSnapshot(rawRoom, rawKey) ==
  LET room == sanitizeRoom(QueryRoom(rawRoom))
      key == sanitizeName(rawKey, now)
  IN /\ nOps < MaxStoreOps
     /\ nOps' = nOps + 1
     /\ \E m \in mongoLoadSnapshot(snapshots, room, key) :
          resp' = Resp("load", room, key,
                       loadSnapshotFile(snapFiles, room, key), m,
                       resp.onlyDraws, resp.undone)
     /\ UNCHANGED <<useMongo, files, strokes, now, snapFiles, snapshots, saved>>
     /\ UNCHANGED socketVars

\* GET /api/snapshots: listSnapshotsFile and mongoListSnapshots.
ListSnapshots(rawRoom) ==
  LET room == sanitizeRoom(QueryRoom(rawRoom))
  IN /\ nOps < MaxStoreOps
     /\ nOps' = nOps + 1
     /\ resp' = Resp("list", room, <<>>,
                     listSnapshotsFile(snapFiles, room),
                     mongoListSnapshots(snapshots, room),
                     resp.onlyDraws, resp.undone)
     /\ UNCHANGED <<useMongo, files, strokes, now, snapFiles, snapshots, saved>>
     /\ UNCHANGED socketVars

StoreNext ==
  \/ \E room \in StoreRooms, pt \in Points : StoreAppend(room, pt)
  \/ \E room \in StoreRooms : StoreClear(room)
  \/ \E room \in StoreRooms : StoreUndo(room)
  \/ \E room \in StoreRooms, history \in SnapshotPayloads : StoreReplace(room, history)
  \/ \E rawRoom \in StoreRawRooms, rawName \in RawNames : SaveSnapshot(rawRoom, rawName)
  \/ \E rawRoom \in StoreRawRooms, rawKey \in RawKeys : LoadSnapshot(rawRoom, rawKey)
  \/ \E rawRoom \in StoreRawRooms : ListSnapshots(rawRoom)

SpecStore == StoreInit /\ [][StoreNext]_vars

\* ============================================== validation and file names
\* sanitizeRoom, sanitizeName and the file names built from their results,
\* applied to raw request parameters.
MaxRawLen == 3
MaxRawNameLen == 2

RawRoomChars == {"a", "Z", "_", " ", ".", "/"}
RawNameChars == {"b", " ", ".", "/", "\\"}

\* The strings over an alphabet up to a length.
StringsUpTo(chars, n) == UNION {[1..k -> chars] : k \in 0..n}

\* A string of n times the character ch.
Repeat(ch, n) == [i \in 1..n |-> ch]

\* Raw rooms: a missing parameter, short strings, and strings at and just
\* over the length the pattern allows.
PureRawRooms ==
  {Undefined}
    \cup {JString(v) : v \in StringsUpTo(RawRoomChars, MaxRawLen)}
    \cup {JString(Repeat("a", MaxRoomLen)), JString(Repeat("a", MaxRoomLen + 1))}

\* Raw names: a missing parameter, short strings, and one longer than the
\* slice keeps.
PureRawNames ==
  {Undefined}
    \cup {JString(v) : v \in StringsUpTo(RawNameChars, MaxRawNameLen)}
    \cup {JString(Repeat("b", MaxNameLen + 1))}

\* Every raw room with one name, and every raw name with a few rooms.
PureInputs ==
  (PureRawRooms \X {JString(<<"b">>)})
    \cup ((RawRooms \cup StoreRawRooms) \X PureRawNames)

Pure(op, rawRoom, rawName, room, again, name, path) ==
  [op |-> op, rawRoom |-> rawRoom, rawName |-> rawName, room |-> room,
   again |-> again, name |-> name, path |-> path]

PureInit ==
  /\ useMongo = FALSE
  /\ files = <<>>
  /\ strokes = <<>>
  /\ now = 0
  /\ status = [c \in Conns |-> "new"]
  /\ roomOf = [c \in Conns |-> NoRoom]
  /\ members = [r \in Rooms |-> {}]
  /\ tasks = EmptyBag
  /\ nEvents = 0
  /\ emitted = {}
  /\ last = Step("init", "", NoRoom, NoPayload, NoPayload, {})
  /\ appended = [r \in Rooms |-> <<>>]
  /\ appendOnly = [r \in Rooms |-> TRUE]
  /\ nHistory = [c \in Conns |-> 0]
  /\ snapFiles = <<>>
  /\ snapshots = <<>>
  /\ saved = <<>>
  /\ \E in \in PureInputs :
       resp = Pure("input", in[1], in[2], <<>>, <<>>, <<>>, <<>>)
  /\ nOps = 0
  /\ NoClients

\* const room = sanitizeRoom(rawRoom)
PureSanitizeRoom ==
  /\ resp.op = "input"
  /\ resp' = [resp EXCEPT !.op = "sanitizeRoom",
                          !.room = sanitizeRoom(resp.rawRoom)]
  /\ UNCHANGED <<useMongo, files, strokes, now, snapFiles, snapshots, saved, nOps>>
  /\ UNCHANGED socketVars

\* sanitizeRoom applied to its own result
PureSanitizeAgain ==
  /\ resp.op = "sanitizeRoom"
  /\ resp' = [resp EXCEPT !.op = "sanitizeRoomTwice",
                          !.again = sanitizeRoom(JString(resp.room))]
  /\ UNCHANGED <<useMongo, files, strokes, now, snapFiles, snapshots, saved, nOps>>
  /\ UNCHANGED socketVars

\* fileForRoom(room): the name of the log file below dataDir
PureFileForRoom ==
  /\ resp.op = "sanitizeRoom"
  /\ resp' = [resp EXCEPT !.op = "fileForRoom", !.path = fileForRoom(resp.room)]
  /\ UNCHANGED <<useMongo, files, strokes, now, snapFiles, snapshots, saved, nOps>>
  /\ UNCHANGED socketVars

\* snapshotFile(room, sanitizeName(name)): the file name below snapshotsDir
PureSnapshotFile ==
  /\ resp.op = "sanitizeRoom"
  /\ \E t \in Clock :
       /\ now' = t
       /\ resp' = [resp EXCEPT
                     !.op = "snapshotFile",
                     !.name = sanitizeName(resp.rawName, t),
                     !.path = snapshotFile(resp.room, sanitizeName(resp.rawName, t))]
  /\ UNCHANGED <<useMongo, files, strokes, snapFiles, snapshots, saved, nOps>>
  /\ UNCHANGED socketVars

PureNext ==
  \/ PureSanitizeRoom
  \/ PureSanitizeAgain
  \/ PureFileForRoom
  \/ PureSnapshotFile

SpecPure == PureInit /\ [][PureNext]_vars

\* ================================================== store calls that fail
\* The handlers of the room events with a file-system call or a database call
\* of the step failing. A read that fails throws inside loadStrokes, which
\* reads only a file that exists; a write that fails throws inside saveStrokes
\* before the file is opened; a database call that fails rejects the promise
\* the handler awaits.
MaxFaultOps == 3

Fault(op, room, readFails, writeFails, before, result, escaped) ==
  [op |-> op, room |-> room, readFails |-> readFails, writeFails |-> writeFails,
   before |-> before, result |-> result, escaped |-> escaped]

\* loadStrokes: try { ... } catch (e) { return [] }
loadStrokesOr(fs, room, readFails) ==
  IF readFails THEN <<>> ELSE loadStrokesFrom(fs, room)

\* saveStrokes: try { fs.writeFileSync(...) } catch (e) { console.error(...) }
saveStrokesOr(fs, room, arr, writeFails) ==
  IF writeFails THEN fs ELSE saveStrokes(fs, room, arr)

FaultInit ==
  /\ useMongo \in BOOLEAN
  /\ files = [f \in {fileForRoom(r) : r \in StoreRooms} |-> NoFile]
  /\ strokes = <<>>
  /\ now = 0
  /\ status = [c \in Conns |-> "new"]
  /\ roomOf = [c \in Conns |-> NoRoom]
  /\ members = [r \in Rooms |-> {}]
  /\ tasks = EmptyBag
  /\ nEvents = 0
  /\ emitted = {}
  /\ last = Step("init", "", NoRoom, NoPayload, NoPayload, {})
  /\ appended = [r \in Rooms |-> <<>>]
  /\ appendOnly = [r \in Rooms |-> TRUE]
  /\ nHistory = [c \in Conns |-> 0]
  /\ snapFiles = <<>>
  /\ snapshots = <<>>
  /\ saved = <<>>
  /\ resp = Fault("init", NoRoom, FALSE, FALSE, {}, NoPayload, FALSE)
  /\ nOps = 0
  /\ NoClients

\* connection: history = useMongo ? await mongoLoadAllPoints(room) : loadStrokes(room)
FaultHistory(room, readFails) ==
  /\ nOps < MaxFaultOps
  /\ nOps' = nOps + 1
  /\ (~useMongo /\ readFails) => files[fileForRoom(room)].exists
  /\ IF useMongo
     THEN IF readFails
          THEN resp' = Fault("history", room, readFails, FALSE,
                             LoadAll(room), NoPayload, TRUE)
          ELSE \E res \in mongoLoadAllPoints(strokes, room) :
                 resp' = Fault("history", room, readFails, FALSE,
                               LoadAll(room), JArray(res), FALSE)
     ELSE resp' = Fault("history", room, readFails, FALSE, LoadAll(room),
                        JArray(loadStrokesOr(files, room, readFails)), FALSE)
  /\ UNCHANGED <<useMongo, files, strokes, now, snapFiles, snapshots, saved>>
  /\ UNCHANGED socketVars

\* draw: await mongoAppendPoint(...) or appendStroke(room, data)
FaultDraw(room, pt, readFails, writeFails) ==
  /\ nOps < MaxFaultOps
  /\ nOps' = nOps + 1
  /\ useMongo => ~readFails
  /\ (~useMongo /\ readFails) => files[fileForRoom(room)].exists
  /\ IF useMongo
     THEN /\ strokes' = IF writeFails THEN strokes
                        ELSE mongoAppendPoint(strokes, FreshId(strokes), room,
                                              strokeKey(pt.strokeId), pt, now)
          /\ files' = files
     ELSE /\ files' = saveStrokesOr(files, room,
                         Append(loadStrokesOr(files, room, readFails), pt),
                         writeFails)
          /\ strokes' = strokes
  /\ resp' = Fault("draw", room, readFails, writeFails, LoadAll(room),
                   NoPayload, useMongo /\ writeFails)
  /\ UNCHANGED <<useMongo, now, snapFiles, snapshots, saved>>
  /\ UNCHANGED socketVars

\* clear: await mongoClear(room) or saveStrokes(room, [])
FaultClear(room, writeFails) ==
  /\ nOps < MaxFaultOps
  /\ nOps' = nOps + 1
  /\ IF useMongo
     THEN /\ strokes' = IF writeFails THEN strokes ELSE mongoClear(strokes, room)
          /\ files' = files
     ELSE /\ files' = saveStrokesOr(files, room, <<>>, writeFails)
          /\ strokes' = strokes
  /\ resp' = Fault("clear", room, FALSE, writeFails, LoadAll(room),
                   NoPayload, useMongo /\ writeFails)
  /\ UNCHANGED <<useMongo, now, snapFiles, snapshots, saved>>
  /\ UNCHANGED socketVars

\* undo: history = await mongoUndo(room) or removeLastStroke(room); on the
\* database the failing call is findOne (readFails) or deleteOne (writeFails).
FaultUndo(room, readFails, writeFails) ==
  LET history == removeLastStroke(loadStrokesOr(files, room, readFails))
  IN /\ nOps < MaxFaultOps
     /\ nOps' = nOps + 1
     /\ (~useMongo /\ readFails) => files[fileForRoom(room)].exists
     /\ IF useMongo
        THEN /\ files' = files
             /\ IF readFails \/ writeFails
                THEN /\ strokes' = strokes
                     /\ resp' = Fault("undo", room, readFails, writeFails,
                                      LoadAll(room), NoPayload, TRUE)
                ELSE IF findLast(strokes, room) = {}
                THEN /\ strokes' = strokes
                     /\ resp' = Fault("undo", room, readFails, writeFails,
                                      LoadAll(room), JArray(<<>>), FALSE)
                ELSE \E d \in findLast(strokes, room) :
                       /\ strokes' = deleteOne(strokes, d.id)
                       /\ \E res \in mongoLoadAllPoints(strokes', room) :
                            resp' = Fault("undo", room, readFails, writeFails,
                                          LoadAll(room), JArray(res), FALSE)
        ELSE /\ files' = saveStrokesOr(files, room, history, writeFails)
             /\ strokes' = strokes
             /\ resp' = Fault("undo", room, readFails, writeFails,
                              LoadAll(room), JArray(history), FALSE)
     /\ UNCHANGED <<useMongo, now, snapFiles, snapshots, saved>>
     /\ UNCHANGED socketVars

\* applySnapshot: await mongoClear(room), the appends, or saveStrokes(room, history);
\* on the database the failing call is the deleteMany of mongoClear.
FaultReplace(room, history, writeFails) ==
  /\ nOps < MaxFaultOps
  /\ nOps' = nOps + 1
  /\ isArray(history)
  /\ IF useMongo
     THEN /\ strokes' = IF writeFails THEN strokes
                        ELSE appendAll(mongoClear(strokes, room), room,
                                       arrayItems(history), now)
          /\ files' = files
     ELSE /\ files' = saveStrokesOr(files, room, arrayItems(history), writeFails)
          /\ strokes' = strokes
  /\ resp' = Fault("replace", room, FALSE, writeFails, LoadAll(room),
                   NoPayload, useMongo /\ writeFails)
  /\ UNCHANGED <<useMongo, now, snapFiles, snapshots, saved>>
  /\ UNCHANGED socketVars

FaultNext ==
  \/ \E room \in StoreRooms, readFails \in BOOLEAN : FaultHistory(room, readFails)
  \/ \E room \in StoreRooms, pt \in Points, readFails, writeFails \in BOOLEAN :
       FaultDraw(room, pt, readFails, writeFails)
  \/ \E room \in StoreRooms, writeFails \in BOOLEAN : FaultClear(room, writeFails)
  \/ \E room \in StoreRooms, readFails, writeFails \in BOOLEAN :
       FaultUndo(room, readFails, writeFails)
  \/ \E room \in StoreRooms, history \in SnapshotPayloads, writeFails \in BOOLEAN :
       FaultReplace(room, history, writeFails)

SpecFault == FaultInit /\ [][FaultNext]_vars

\* ======================================================= Canvas clients
\* The server of Spec with a Canvas behind each socket: what the Canvas draws
\* and sends, what the server relays to it, and what it paints on receipt.
\* Each socket carries its events and its messages in order.
MaxPen == 2
MaxInFlight == 1

\* The sockets that have a Canvas behind them.
Canvases == {"c1", "c2"}

\* The room parameter of the page: ?room=a
CanvasRawRoom == JString(<<"a">>)

\* What the Canvas paints of a point: its type and its coordinates and style.
Painted(pt) == [type |-> pt.type, x |-> pt.x]

\* replay(strokes): every point painted in turn, on top of what is there.
replay(onCanvas, history) ==
  onCanvas \o [i \in 1..Len(history) |-> Painted(history[i])]

\* getPos(e): the coordinates of the pointer, different for every point.
PenBase(c) == IF c = "c1" THEN 0 ELSE IF c = "c2" THEN 10 ELSE 20
getPos(c) == PenBase(c) + nSent[c]

\* const sid = `${Date.now()}-${Math.random()...}`: an id no other stroke has.
NewStrokeId(c) == c \o "-" \o ToString(nSent[c])

Event(event, payload) == [event |-> event, payload |-> payload]

\* The transport carries the messages of the step to their sockets.
Relay ==
  down' = [d \in Conns |->
             IF \E m \in emitted' : m.to = d
             THEN LET m == CHOOSE m \in emitted' : m.to = d
                  IN Append(down[d], Event(m.event, m.payload))
             ELSE down[d]]

\* The server handles nothing of the sockets' events in this step.
ServerIdle ==
  UNCHANGED <<useMongo, files, strokes, now, status, roomOf, members, tasks,
              nEvents, emitted, last, appended, appendOnly, nHistory>>

ClientInit == Init

\* io(SOCKET_SERVER_URL, { query: { room } }) and the server's connection handler
CanvasConnect(c) ==
  /\ Connection(c, CanvasRawRoom)
  /\ Relay
  /\ UNCHANGED <<canvas, nSent, isDrawing, strokeIdRef, up, received>>
  /\ UNCHANGED storeVars

\* start(e): begin a path at the pointer, emit('draw', { type: 'start', ... })
\* with a new stroke id
start(c) ==
  LET pt == [type |-> "start", strokeId |-> NewStrokeId(c), x |-> getPos(c)]
  IN /\ status[c] = "open"
     /\ ~isDrawing[c]
     /\ nSent[c] < MaxPen
     /\ Len(up[c]) < MaxInFlight
     /\ isDrawing' = [isDrawing EXCEPT ![c] = TRUE]
     /\ strokeIdRef' = [strokeIdRef EXCEPT ![c] = NewStrokeId(c)]
     /\ canvas' = [canvas EXCEPT ![c] = Append(@, Painted(pt))]
     /\ nSent' = [nSent EXCEPT ![c] = @ + 1]
     /\ up' = [up EXCEPT ![c] = Append(@, Event("draw", pt))]
     /\ ServerIdle
     /\ UNCHANGED <<down, received>>
     /\ UNCHANGED storeVars

\* moveThrottled(x, y): if (!isDrawing) return; draw the line to the pointer,
\* emit('draw', { type: 'draw', ..., strokeId: strokeIdRef.current })
moveThrottled(c) ==
  LET pt == [type |-> "draw", strokeId |-> strokeIdRef[c], x |-> getPos(c)]
  IN /\ status[c] = "open"
     /\ isDrawing[c]
     /\ nSent[c] < MaxPen
     /\ Len(up[c]) < MaxInFlight
     /\ canvas' = [canvas EXCEPT ![c] = Append(@, Painted(pt))]
     /\ nSent' = [nSent EXCEPT ![c] = @ + 1]
     /\ up' = [up EXCEPT ![c] = Append(@, Event("draw", pt))]
     /\ ServerIdle
     /\ UNCHANGED <<isDrawing, strokeIdRef, down, received>>
     /\ UNCHANGED storeVars

\* end(): setIsDrawing(false)
end(c) ==
  /\ isDrawing[c]
  /\ isDrawing' = [isDrawing EXCEPT ![c] = FALSE]
  /\ ServerIdle
  /\ UNCHANGED <<canvas, nSent, strokeIdRef, up, down, received>>
  /\ UNCHANGED storeVars

\* clearCanvas, on a click of its button: clearRect, emit('clear')
CanvasClear(c) ==
  /\ status[c] = "open"
  /\ ~isDrawing[c]
  /\ Len(up[c]) < MaxInFlight
  /\ canvas' = [canvas EXCEPT ![c] = <<>>]
  /\ up' = [up EXCEPT ![c] = Append(@, Event("clear", NoPayload))]
  /\ ServerIdle
  /\ UNCHANGED <<nSent, isDrawing, strokeIdRef, down, received>>
  /\ UNCHANGED storeVars

\* undo, on a click of its button: emit('undo')
CanvasUndo(c) ==
  /\ status[c] = "open"
  /\ ~isDrawing[c]
  /\ Len(up[c]) < MaxInFlight
  /\ up' = [up EXCEPT ![c] = Append(@, Event("undo", NoPayload))]
  /\ ServerIdle
  /\ UNCHANGED <<canvas, nSent, isDrawing, strokeIdRef, down, received>>
  /\ UNCHANGED storeVars

\* socketRef.current.on('history' | 'draw' | 'clear' | 'resetWithHistory')
CanvasReceive(c) ==
  /\ down[c] # <<>>
  /\ down' = [down EXCEPT ![c] = Tail(@)]
  /\ LET m == Head(down[c])
     IN canvas' = [canvas EXCEPT ![c] =
          IF m.event = "history" THEN replay(@, arrayItems(m.payload))
          ELSE IF m.event = "draw" THEN Append(@, Painted(m.payload))
          ELSE IF m.event = "clear" THEN <<>>
          ELSE IF m.event = "resetWithHistory" THEN replay(<<>>, arrayItems(m.payload))
          ELSE @]
  /\ ServerIdle
  /\ UNCHANGED <<nSent, isDrawing, strokeIdRef, up, received>>
  /\ UNCHANGED storeVars

\* The server receives the next event of the socket and runs its handler.
ServerReceive(c) ==
  /\ up[c] # <<>>
  /\ up' = [up EXCEPT ![c] = Tail(@)]
  /\ received' = Append(received, Head(up[c]))
  /\ LET e == Head(up[c])
     IN \/ e.event = "draw" /\ Draw(c, e.payload)
        \/ e.event = "clear" /\ Clear(c)
        \/ e.event = "undo" /\ Undo(c)
  /\ Relay
  /\ UNCHANGED <<canvas, nSent, isDrawing, strokeIdRef>>
  /\ UNCHANGED storeVars

\* A database call of a suspended handler runs, or the handler resumes.
ServerResume(k) ==
  /\ \/ JoinFind(k)
     \/ JoinEmit(k)
     \/ DrawUpdate(k)
     \/ ClearDelete(k)
     \/ UndoFindOne(k)
     \/ UndoDeleteOne(k)
     \/ UndoFind(k)
     \/ UndoEmit(k)
  /\ Relay
  /\ UNCHANGED <<canvas, nSent, isDrawing, strokeIdRef, up, received>>

ClientNext ==
  \/ \E c \in Canvases : CanvasConnect(c)
  \/ \E c \in Canvases : start(c)
  \/ \E c \in Canvases : moveThrottled(c)
  \/ \E c \in Canvases : end(c)
  \/ \E c \in Canvases : CanvasClear(c)
  \/ \E c \in Canvases : CanvasUndo(c)
  \/ \E c \in Canvases : CanvasReceive(c)
  \/ \E c \in Canvases : ServerReceive(c)
  \/ \E k \in BagToSet(tasks) : ServerResume(k)

SpecClient == ClientInit /\ [][ClientNext]_vars

\* =================================================================== claims
\* The open sockets bound to a room.
InRoom(room) == {d \in Conns : status[d] = "open" /\ roomOf[d] = room}

\* The step that completes an undo, and the one that completes applySnapshot.
UndoDone == (last.op = "undo" /\ ~useMongo) \/ last.op = "undo.emit"
SnapshotDone ==
  \/ last.op = "applySnapshot" /\ ~useMongo /\ last.arg.tag = "array"
  \/ last.op = "applySnapshot.emit"

\* R is what undo makes of the log L: the prefix strictly before the last
\* point of type start, the empty log when L has no such point.
IsUndoResult(L, R) ==
  IF \E i \in 1..Len(L) : L[i].type = "start"
  THEN \E i \in 1..Len(L) :
         /\ L[i].type = "start"
         /\ \A j \in (i + 1)..Len(L) : L[j].type # "start"
         /\ R = SubSeq(L, 1, i - 1)
  ELSE R = <<>>

\* ----------------------------------------------------------------------- C1
\* C1: for every room whose log was empty and then only received points
\* appended one at a time, with every append finished, loadAll of the room
\* returns exactly the appended sequence, same points in the same order.
C1_LoadAllReturnsAppended ==
  \A r \in Rooms :
    (appendOnly[r] /\ ~Busy(r)) => LoadAll(r) = {appended[r]}

C3_HistoryIsCurrentLog ==
  /\ \A c \in Conns : nHistory[c] <= 1
  /\ \A m \in emitted : m.event = "history" =>
        /\ last.op \in {"connection", "join.emit"}
        /\ m.to = last.conn
        /\ emitted = {m}
        /\ m.payload.tag = "array"
        /\ m.payload.items \in LoadAll(last.room)

\* ----------------------------------------------------------------------- C4
\* C4: an undo delivers resetWithHistory(H) to every socket in the room, the
\* sender included, and H is the room's log as stored at the broadcast, also
\* with draws of other sockets in flight.
C4_UndoResetsWithStoredLog ==
  UndoDone =>
     /\ emitted = Msgs(InRoom(last.room), "resetWithHistory", last.ret)
     /\ last.ret.tag = "array"
     /\ last.ret.items \in LoadAll(last.room)

C6_DrawAppendsAndRelays ==
  [][/\ last'.op = "draw" =>
          emitted' = Msgs(InRoom(last'.room) \ {last'.conn}, "draw", last'.arg)
     /\ (last'.op = "draw" /\ ~useMongo) =>
          loadStrokesFrom(files', last'.room)
             = Append(loadStrokes(last'.room), last'.arg)
     /\ \A k \in BagToSet(tasks) :
          (k.kind = "draw" /\ tasks' = Ended(k)) =>
             mongoLoadAllPoints(strokes', k.room)
                = {Append(L, k.arg) : L \in mongoLoadAllPoints(strokes, k.room)}
    ]_vars

\* ----------------------------------------------------------------------- C7
\* C7: an applySnapshot event whose payload is no array changes no room's log,
\* starts no store call and emits no message.
C7_NonArraySnapshotIgnored ==
  [][(last'.op = "applySnapshot" /\ last'.arg.tag # "array") =>
        /\ emitted' = {}
        /\ files' = files
        /\ strokes' = strokes
        /\ tasks' = tasks
    ]_vars

\* A payload that is no array arrived in a room with a log and two sockets.
C7_NullSnapshotInBusyRoom ==
  /\ last.op = "applySnapshot"
  /\ last.arg = JNull
  /\ LoadAll(last.room) # {<<>>}
  /\ Cardinality(InRoom(last.room)) >= 2
  /\ emitted = {}

\* ----------------------------------------------------------------------- C8
\* C8: an applySnapshot event with a point sequence H makes the room's log
\* equal to H (loadAll returns H in order, nothing of the previous log is
\* left) and delivers resetWithHistory(H) to every socket in the room, the
\* sender included.
C8_SnapshotReplacesLog ==
  SnapshotDone =>
     /\ LoadAll(last.room) = {last.arg.items}
     /\ emitted = Msgs(InRoom(last.room), "resetWithHistory", last.arg)

\* ----------------------------------------------------------------------- C9
\* C9: once the store call of a clear has run, loadAll of the room returns the
\* empty sequence, whatever the log held, and loadAll of every other room
\* returns what it returned before.
C9_ClearEmptiesOnlyItsRoom ==
  [][((last'.op = "clear" /\ ~useMongo) \/ last'.op = "clear.deleteMany") =>
        /\ LoadAllOf(files', strokes', last'.room) = {<<>>}
        /\ \A r \in Rooms \ {last'.room} :
              LoadAllOf(files', strokes', r) = LoadAllOf(files, strokes, r)
    ]_vars

\* A clear emptied a log that held points while another room held some too.
C9_ClearedBesideOtherLog ==
  /\ (last.op = "clear" /\ ~useMongo) \/ last.op = "clear.deleteMany"
  /\ last.pre # {<<>>}
  /\ LoadAll(last.room) = {<<>>}
  /\ \E r \in Rooms \ {last.room} : LoadAll(r) # {<<>>}

Bare(seq) == [i \in 1..Len(seq) |-> [type |-> seq[i].type, x |-> seq[i].x]]

\* ---------------------------------------------------------------------- C11
\* C11: after saveSnapshot(R, n), with no snapshot saved since, loadSnapshot(R, n)
\* returns exactly the sequence that was R's log when it was saved, whatever
\* draw, clear, undo or applySnapshot followed, on both backends.
C11_SnapshotRoundTrip ==
  saved # <<>> =>
     LET s == saved[Len(saved)]
     IN /\ loadSnapshotFile(snapFiles, s.room, s.name) = JArray(s.fileLog)
        /\ mongoLoadSnapshot(snapshots, s.room, s.name) = {JArray(s.mongoLog)}

\* The saves of a room, and whether two saves have the same identity.
SavesOf(room) == {i \in 1..Len(saved) : saved[i].room = room}
SamePair(i, j) == saved[i].room = saved[j].room /\ saved[i].name = saved[j].name

\* ---------------------------------------------------------------------- C12
\* C12: a snapshot once created is never changed: for every identity
\* (room, name) the file backend keeps returning the data and the createdAt
\* of its first save, whatever saveSnapshot, draw, clear, undo and
\* applySnapshot calls follow, a second save under the same identity included.
C12_SnapshotNeverChanges ==
  \A i \in 1..Len(saved) :
     (\A j \in 1..(i - 1) : ~SamePair(i, j)) =>
        /\ loadSnapshotFile(snapFiles, saved[i].room, saved[i].name)
             = JArray(saved[i].fileLog)
        /\ snapFiles[saved[i].file].text.createdAt = saved[i].t

\* ---------------------------------------------------------------------- C13
\* C13: two saves with different pairs (room, sanitized name) never write the
\* same snapshot file, so none overwrites or shadows the other.
C13_SnapshotFilesDistinct ==
  \A i, j \in 1..Len(saved) :
     ~SamePair(i, j) => saved[i].file # saved[j].file

\* ---------------------------------------------------------------------- C14
\* C14: listSnapshots(R) returns exactly the snapshots saved for R, none of
\* another room, and loadSnapshot(R, key) returns only data of a snapshot
\* that was saved for R, on both backends.
C14_SnapshotsPartitionedByRoom ==
  /\ \A R \in StoreRooms :
        /\ {[room |-> e.room, name |-> e.name] : e \in listSnapshotsFile(snapFiles, R)}
             = {[room |-> R, name |-> saved[i].name] : i \in SavesOf(R)}
        /\ {e.id : e \in mongoListSnapshots(snapshots, R)}
             = {saved[i].id : i \in SavesOf(R)}
  /\ resp.op = "load" =>
        /\ resp.file # JNull =>
              \E i \in SavesOf(resp.room) : resp.file = JArray(saved[i].fileLog)
        /\ resp.mongo # JNull =>
              \E i \in SavesOf(resp.room) : resp.mongo = JArray(saved[i].mongoLog)

\* v is s without its leading and trailing whitespace.
IsTrimOf(s, v) ==
  \E i \in 1..(Len(s) + 1), j \in 0..Len(s) :
     /\ v = SubSeq(s, i, j)
     /\ \A k \in 1..(i - 1) : s[k] \in Whitespace
     /\ \A k \in (j + 1)..Len(s) : s[k] \in Whitespace
     /\ v # <<>> => (v[1] \notin Whitespace /\ v[Len(v)] \notin Whitespace)

\* 1 to 64 letters, digits, underscores or hyphens.
IsRoomKey(v) ==
  /\ Len(v) \in 1..MaxRoomLen
  /\ \A i \in 1..Len(v) : v[i] \in Lower \cup Upper \cup Digits \cup {"_", "-"}

\* The characters of a raw parameter, none for a missing one.
RawChars(raw) == IF raw.tag = "string" THEN raw.chars ELSE <<>>

\* ---------------------------------------------------------------------- C15
\* C15 as stated: sanitizeRoom(s) is "lobby" or a room key, applying it twice
\* gives the same, and an empty input or one containing any other character
\* maps to "lobby".
C15_OtherCharacterGivesLobby ==
  resp.op \in {"sanitizeRoom", "sanitizeRoomTwice"} =>
     /\ resp.room = lobby \/ IsRoomKey(resp.room)
     /\ resp.op = "sanitizeRoomTwice" => resp.again = resp.room
     /\ (\/ RawChars(resp.rawRoom) = <<>>
         \/ \E i \in 1..Len(RawChars(resp.rawRoom)) :
               RawChars(resp.rawRoom)[i] \notin Lower \cup Upper \cup Digits \cup {"_", "-"})
          => resp.room = lobby

\* C15 amended: sanitizeRoom(s) is "lobby" or a room key, applying it twice
\* gives the same, and with v the input without its surrounding whitespace:
\* v itself is the result when v is a room key, "lobby" in every other case
\* (v empty, longer than 64, or containing any other character).
C15_SanitizeRoomTotalIdempotent ==
  resp.op \in {"sanitizeRoom", "sanitizeRoomTwice"} =>
     /\ resp.room = lobby \/ IsRoomKey(resp.room)
     /\ resp.op = "sanitizeRoomTwice" => resp.again = resp.room
     /\ \A v \in {SubSeq(RawChars(resp.rawRoom), i, j) :
                    i \in 1..(Len(RawChars(resp.rawRoom)) + 1),
                    j \in 0..Len(RawChars(resp.rawRoom))} :
          IsTrimOf(RawChars(resp.rawRoom), v) =>
             resp.room = IF IsRoomKey(v) THEN v ELSE lobby

\* A raw room with surrounding whitespace was mapped to the room key inside
\* it, and mapped to itself when sanitized again.
C15_TrimmedRoomKept ==
  /\ resp.op = "sanitizeRoomTwice"
  /\ resp.room # lobby
  /\ resp.again = resp.room
  /\ RawChars(resp.rawRoom) # resp.room
  /\ \E i \in 1..Len(RawChars(resp.rawRoom)) : RawChars(resp.rawRoom)[i] = " "

\* f names a direct child of the directory it is joined to: not empty, no
\* path separator, and not the directory itself or its parent.
IsChildName(f) ==
  /\ f # <<>>
  /\ \A i \in 1..Len(f) : f[i] \notin {"/", "\\"}
  /\ f \notin {<<".">>, <<".", ".">>}

\* ---------------------------------------------------------------------- C19
\* C19: for every raw room and raw name, the file name of the room log and
\* the file name of the snapshot contain no path separator and no ".."
\* segment, so each path is a direct child of its storage directory.
C19_PathsStayInDirectory ==
  resp.op \in {"fileForRoom", "snapshotFile"} => IsChildName(resp.path)

\* A snapshot file name was built from a raw room and a raw name that both
\* hold a path separator.
C19_TraversalInputNamed ==
  /\ resp.op = "snapshotFile"
  /\ \E i \in 1..Len(RawChars(resp.rawRoom)) : RawChars(resp.rawRoom)[i] = "/"
  /\ \E i \in 1..Len(RawChars(resp.rawName)) : RawChars(resp.rawName)[i] \in {"/", "\\"}
  /\ \E i \in 1..Len(RawChars(resp.rawName)) : RawChars(resp.rawName)[i] = "."

\* ---------------------------------------------------------------------- C16
\* C16: after draw events only, loadAll on the database backend returns the
\* same points in the same order as loadAll on the file backend fed the same
\* events (points compared by their drawing fields).
C16_LoadAllSameOnBothBackends ==
  resp.onlyDraws =>
     \A room \in StoreRooms :
        \A res \in mongoLoadAllPoints(strokes, room) :
           Bare(res) = Bare(loadStrokesFrom(files, room))

\* ---------------------------------------------------------------------- C17
\* C17: on a log reached through draw, clear and applySnapshot events (no
\* undo before), the sequence returned by the database backend's undo equals
\* the sequence returned by the file backend's undo (points compared by their
\* drawing fields).
C17_UndoSameOnBothBackends ==
  [][(resp'.op = "undo" /\ nOps' = nOps + 1 /\ ~resp.undone)
        => Bare(arrayItems(resp'.mongo)) = Bare(arrayItems(resp'.file))]_vars

\* ---------------------------------------------------------------------- C20
\* C20: at the moment a connection is sent the draw broadcast for point p,
\* p is already in the log of the room (points compared by their drawing
\* fields).
C20_DrawPersistedBeforeBroadcast ==
  \A m \in emitted :
     m.event = "draw" =>
        \A log \in LoadAll(roomOf[m.to]) :
           \E i \in 1..Len(log) : Bare(<<log[i]>>) = Bare(<<m.payload>>)

\* ---------------------------------------------------------------------- C18
\* C18: a store call of a room event that fails is caught: no error escapes
\* the handler, a failed read gives the empty result, and the log of the room
\* is afterwards what it was before the event.
C18_FailureIsNoOp ==
  (resp.op \in {"history", "draw", "clear", "undo", "replace"}
      /\ (resp.readFails \/ resp.writeFails)) =>
     /\ ~resp.escaped
     /\ resp.op = "history" => resp.result = JArray(<<>>)
     /\ LoadAll(resp.room) = resp.before

\* The connection whose handler takes the step: the one named by the step's
\* record, or the one of the suspended invocation that moves on or ends.
Acting(c) ==
  \/ last'.conn = c
  \/ \E k \in BagToSet(tasks) :
        k.conn = c /\ CopiesIn(k, tasks') < CopiesIn(k, tasks)

OthersInRoom(c) == InRoom(roomOf[c]) \ {c}

BareLogs(fs, coll, room) == {Bare(log) : log \in LoadAllOf(fs, coll, room)}

\* ---------------------------------------------------------------------- C22
\* C22: every step of an applySnapshot with the array H leaves the log of the
\* room either as it was before the step or as exactly H, so no handler that
\* runs in between sees an empty or partly installed log; and when
\* resetWithHistory(H) is broadcast the stored log is H.
C22_ReplaceAllAtomic ==
  [][/\ \A k \in BagToSet(tasks) :
          (k.kind = "applySnapshot" /\ CopiesIn(k, tasks') < CopiesIn(k, tasks)) =>
             BareLogs(files', strokes', k.room)
                \subseteq BareLogs(files, strokes, k.room)
                             \cup {Bare(arrayItems(k.arg))}
     /\ (\/ last'.op = "applySnapshot.emit"
         \/ last'.op = "applySnapshot" /\ ~useMongo /\ last'.arg.tag = "array") =>
          BareLogs(files', strokes', last'.room) = {Bare(arrayItems(last'.arg))}
    ]_vars

\* R is what an undo may leave of the log L: a strict prefix of it, and the
\* empty log when L is empty.
IsShorterPrefix(R, L) ==
  IF L = <<>> THEN R = <<>>
  ELSE Len(R) < Len(L) /\ R = SubSeq(L, 1, Len(R))

\* ---------------------------------------------------------------------- C28
\* C28: on either backend the sequence undo returns is a strict prefix of the
\* log before it (empty on an empty log) and is the log afterwards, so n
\* undos in a row empty a log of length n.
C28_UndoRemovesSuffix ==
  [][(resp'.op = "undo" /\ nOps' = nOps + 1) =>
        /\ IsShorterPrefix(arrayItems(resp'.file),
                           loadStrokesFrom(files, resp'.room))
        /\ loadStrokesFrom(files', resp'.room) = arrayItems(resp'.file)
        /\ \A log \in mongoLoadAllPoints(strokes, resp'.room) :
              IsShorterPrefix(arrayItems(resp'.mongo), log)
        /\ arrayItems(resp'.mongo) \in mongoLoadAllPoints(strokes', resp'.room)
    ]_vars

\* The room of the Canvas clients.
CanvasRoom == sanitizeRoom(QueryRoom(CanvasRawRoom))

\* Only draw events have reached the server: no clear and no undo.
DrawsOnly == \A i \in 1..Len(received) : received[i].event = "draw"

\* The points of the draw events in the order the server received them.
ReceivedPoints == [i \in 1..Len(received) |-> received[i].payload]

\* No draw handler is suspended before its store call.
DrawsPersisted == \A k \in BagToSet(tasks) : k.kind # "draw"

\* ---------------------------------------------------------------------- C21
\* C21: when only draw events have been received and all of them are
\* persisted, the log of the room lists their points in exactly the order
\* the server received them (points compared by their drawing fields).
C21_LogInReceiptOrder ==
  (DrawsOnly /\ DrawsPersisted) =>
     \A log \in LoadAll(CanvasRoom) : Bare(log) = Bare(ReceivedPoints)

\* The strokeId of a stored point; the database keeps none on its points.
StrokeIdOf(pt) == IF "strokeId" \in DOMAIN pt THEN pt.strokeId ELSE "undefined"

\* ---------------------------------------------------------------------- C23
\* C23: in every reachable state, each point of type draw in the log of the
\* room is preceded there by a point of type start with the same strokeId.
C23_DrawPrecededByStart ==
  \A log \in LoadAll(CanvasRoom) :
     \A i \in 1..Len(log) :
        log[i].type = "draw" =>
           \E j \in 1..(i - 1) :
              /\ log[j].type = "start"
              /\ StrokeIdOf(log[j]) = StrokeIdOf(log[i])

\* Every event sent has been handled and every message delivered.
Quiescent ==
  /\ tasks = EmptyBag
  /\ \A c \in Conns : up[c] = <<>> /\ down[c] = <<>>

\* ---------------------------------------------------------------------- C26
\* C26: at quiescence the point sequence painted on every connected Canvas
\* equals the log of the room in the store.
C26_CanvasesConverge ==
  Quiescent =>
     \A c \in Canvases :
        status[c] = "open" =>
           \A log \in LoadAll(CanvasRoom) : canvas[c] = replay(<<>>, log)

\* The points the Canvas of c has drawn itself, as painted.
OwnPoints(c) == {pt \in [type : PointTypes, x : PenBase(c)..(PenBase(c) + MaxPen)] : TRUE}

\* How often the Canvas of c has painted the point.
TimesPainted(c, pt) == Cardinality({i \in 1..Len(canvas[c]) : canvas[c][i] = pt})

\* ---------------------------------------------------------------------- C27
\* C27: with draw events only, at quiescence, every point of the log that
\* another connection drew has been delivered to the connected Canvas c
\* exactly once, inside its history or as a draw broadcast.
C27_JoinerGetsEachPointOnce ==
  (Quiescent /\ DrawsOnly) =>
     \A c \in Canvases :
        status[c] = "open" =>
           \A log \in LoadAll(CanvasRoom) :
              \A i \in 1..Len(log) :
                 Painted(log[i]) \notin OwnPoints(c) =>
                    TimesPainted(c, Painted(log[i])) = 1

====
